---- MODULE Spec2Model ----
(***************************************************************************)
(* State-machine model of the file-tree browser: App (host, owner of the   *)
(* selectedFile state and of the mount effect that resolves the default    *)
(* file), FileTree / FileTreeNode (recursive renderer, one isOpen flag per *)
(* mounted instance) and the FileNode data in PROJECT_FILES.               *)
(*                                                                         *)
(* FileNode objects live in `heap`, addressed by reference (a positive     *)
(* integer); PROJECT_FILES is the sequence of root references.  The data   *)
(* is immutable; the model ranges over every forest of at most MaxNodes    *)
(* nodes that satisfies the FileNode shape (only directories have          *)
(* children, directories have no content).                                 *)
(***************************************************************************)
EXTENDS Integers, Sequences, FiniteSets, TLC

VARIABLES PROJECT_FILES, heap, selectedFile, defaultFile, isOpen, pc,
          lastEvent, prevEvent, lastFileClicked, discarded

\* lastEvent, prevEvent, lastFileClicked and discarded record the past and
\* are never read by an action: the last two events, the file row clicked
\* last (Null if none), and the directories below the directory clicked
\* last whose latest unmount threw away a collapsed flag.
vars == <<PROJECT_FILES, heap, selectedFile, defaultFile, isOpen, pc,
          lastEvent, prevEvent, lastFileClicked, discarded>>

\* ---------------------------------------------------------------- bounds
MaxNodes == 3

\* ------------------------------------------------------------- data model
Null == 0
Undefined == "undefined"
Names == {"protocol.md", "a.go"}
Contents == {"X", "Y"}
NodeTypes == {"file", "directory"}

\* The literal the resolver compares names with.
DefaultFileName == "protocol.md"

Refs == DOMAIN heap

\* node.children, or the empty sequence where the field is absent
HasChildren(n) == "children" \in DOMAIN heap[n]
Children(n) == IF HasChildren(n) THEN heap[n].children ELSE << >>

RECURSIVE SeqOfSet(_)
SeqOfSet(S) ==
  IF S = {} THEN << >>
  ELSE LET m == CHOOSE x \in S : \A y \in S : x <= y
       IN  <<m>> \o SeqOfSet(S \ {m})

\* A FileNode literal: a file has no children field, a directory has one.
FileNode(name, type, content, children) ==
  IF type = "file"
  THEN [name |-> name, type |-> type, content |-> content]
  ELSE [name |-> name, type |-> type, content |-> content,
        children |-> children]

\* Every forest of n nodes: parent[i] < i gives every ordered forest shape;
\* the children of a node are stored in increasing reference order.
ForestOK(n, parent, type, content) ==
  /\ \A i \in 1..n : parent[i] < i
  /\ \A i \in 1..n : parent[i] # 0 => type[parent[i]] = "directory"
  /\ \A i \in 1..n : type[i] = "directory" => content[i] = Undefined

ChildSeq(n, parent, p) == SeqOfSet({j \in 1..n : parent[j] = p})

\* ------------------------------------------------------- pure functions
\* Variant of the resolver that tests every name of a level before it
\* descends into any children.
RECURSIVE findDefaultFileLevelFirst(_)
findDefaultFileLevelFirst(nodes) ==
  LET hits == {i \in DOMAIN nodes : heap[nodes[i]].name = DefaultFileName}
      RECURSIVE below(_)
      below(ns) ==
        IF ns = << >> THEN Null
        ELSE LET found == IF HasChildren(Head(ns))
                          THEN findDefaultFileLevelFirst(heap[Head(ns)].children)
                          ELSE Null
             IN  IF found # Null THEN found ELSE below(Tail(ns))
  IN  IF hits # {}
      THEN nodes[CHOOSE i \in hits : \A j \in hits : i <= j]
      ELSE below(nodes)

\* App.findDefaultFile: loop over nodes, return on the first name match,
\* recurse into node.children when present, null when the loop ends.
RECURSIVE findDefaultFile(_)
findDefaultFile(nodes) ==
  IF nodes = << >> THEN Null
  ELSE LET node == Head(nodes)
       IN  IF heap[node].name = DefaultFileName THEN node
           ELSE LET found == IF HasChildren(node)
                             THEN findDefaultFile(heap[node].children)
                             ELSE Null
                IN  IF found # Null THEN found
                    ELSE findDefaultFile(Tail(nodes))

\* Variant of the highlight test that compares names only.
isSelectedByName(sel, n) ==
  /\ sel # Null
  /\ heap[sel].name = heap[n].name

\* FileTreeNode.isSelected: selectedFile?.name === node.name &&
\* selectedFile?.content === node.content (undefined when selectedFile is
\* null; a name is never undefined).
isSelectedGiven(sel, n) ==
  /\ sel # Null
  /\ heap[sel].name = heap[n].name
  /\ heap[sel].content = heap[n].content

isSelected(n) == isSelectedGiven(selectedFile, n)

\* All nodes below n (n excluded).
RECURSIVE DescSeq(_)
RECURSIVE Descendants(_)
DescSeq(nodes) ==
  IF nodes = << >> THEN {}
  ELSE {Head(nodes)} \cup Descendants(Head(nodes)) \cup DescSeq(Tail(nodes))
Descendants(n) == DescSeq(Children(n))

\* FileTree / FileTreeNode render: the rows produced for a node sequence
\* under the open flags `open`, in document order.
RECURSIVE FileTree(_, _)
\* Variant of the node render in which a closed node renders nothing, not
\* even its own row.
FileTreeNodeHideClosed(n, open) ==
  IF open[n]
  THEN <<n>> \o (IF HasChildren(n)
                 THEN FileTree(heap[n].children, open) ELSE << >>)
  ELSE << >>

\* Variant of the node render in which a closed directory still lists the
\* files it holds.
FileTreeNodeListFiles(n, open) ==
  <<n>> \o (IF HasChildren(n)
            THEN IF open[n]
                 THEN FileTree(heap[n].children, open)
                 ELSE SelectSeq(heap[n].children,
                                LAMBDA c : heap[c].type = "file")
            ELSE << >>)

FileTreeNode(n, open) ==
  <<n>> \o (IF open[n] /\ HasChildren(n)
            THEN FileTree(heap[n].children, open) ELSE << >>)
FileTree(nodes, open) ==
  IF nodes = << >> THEN << >>
  ELSE FileTreeNode(Head(nodes), open) \o FileTree(Tail(nodes), open)

Range(s) == {s[i] : i \in DOMAIN s}

\* The rows on screen; none once the application has been torn down.
Rows == IF pc = "crashed" THEN << >> ELSE FileTree(PROJECT_FILES, isOpen)
Rendered == Range(Rows)

\* The main content area of App: the selected file's name and content, or
\* the placeholder.
Placeholder == [kind |-> "placeholder"]
Viewer ==
  IF pc = "crashed" THEN [kind |-> "none"]
  ELSE IF selectedFile # Null
       THEN [kind |-> "file", name |-> heap[selectedFile].name,
             content |-> heap[selectedFile].content]
       ELSE Placeholder

NoEvent == [kind |-> "none", node |-> Null]

\* ------------------------------------------------------------------ Init
\* State after the first render of App: selectedFile is null, every node of
\* the forest has a mounted FileTreeNode whose isOpen is true, the mount
\* effect has not run yet.
InitForest ==
  \E n \in 0..MaxNodes :
    \E parent \in [1..n -> 0..MaxNodes], type \in [1..n -> NodeTypes],
       name \in [1..n -> Names],
       content \in [1..n -> Contents \cup {Undefined}] :
      /\ ForestOK(n, parent, type, content)
      /\ PROJECT_FILES = ChildSeq(n, parent, 0)
      /\ heap = [i \in 1..n |->
                   FileNode(name[i], type[i], content[i],
                            ChildSeq(n, parent, i))]

Init ==
  /\ InitForest
  /\ selectedFile = Null
  /\ defaultFile = Null
  /\ isOpen = [i \in DOMAIN heap |-> TRUE]
  /\ pc = "mounted"
  /\ lastEvent = NoEvent
  /\ prevEvent = NoEvent
  /\ lastFileClicked = Null
  /\ discarded = {}

\* --------------------------------------------------------------- actions
\* Variant of the effect without a dependency list: it runs again after
\* every render.
EffectPendingEveryRender == pc \in {"mounted", "ready"}

\* The effect has an empty dependency list: it runs once, after the first
\* render and before any event is dispatched.
EffectPending == pc = "mounted"

\* The argument the effect passes to the resolver.
EffectArg == Children(PROJECT_FILES[1])

\* Variant of the effect that resolves the default file and never stores
\* it.
UseEffectNoStore ==
  /\ EffectPending
  /\ IF PROJECT_FILES = << >>
     THEN /\ pc' = "crashed"
          /\ isOpen' = << >>
          /\ UNCHANGED defaultFile
     ELSE /\ pc' = "ready"
          /\ defaultFile' = findDefaultFile(EffectArg)
          /\ UNCHANGED isOpen
  /\ prevEvent' = lastEvent
  /\ lastEvent' = [kind |-> "effect", node |-> Null]
  /\ UNCHANGED <<PROJECT_FILES, heap, selectedFile, lastFileClicked,
                 discarded>>

\* App.useEffect: PROJECT_FILES[0].children throws on an empty forest (the
\* error is uncaught, the application is torn down); otherwise the resolver
\* runs on the first root's children and a non-null result is stored.
UseEffect ==
  /\ EffectPending
  /\ IF PROJECT_FILES = << >>
     THEN /\ pc' = "crashed"
          /\ isOpen' = << >>
          /\ UNCHANGED <<selectedFile, defaultFile>>
     ELSE /\ pc' = "ready"
          /\ defaultFile' = findDefaultFile(EffectArg)
          /\ selectedFile' = IF defaultFile' # Null THEN defaultFile'
                             ELSE selectedFile
          /\ UNCHANGED isOpen
  /\ prevEvent' = lastEvent
  /\ lastEvent' = [kind |-> "effect", node |-> Null]
  /\ UNCHANGED <<PROJECT_FILES, heap, lastFileClicked, discarded>>

\* The directory whose children hold n, Null for a root.
Parent(n) ==
  IF \E p \in Refs : \E i \in DOMAIN Children(p) : Children(p)[i] = n
  THEN CHOOSE p \in Refs : \E i \in DOMAIN Children(p) : Children(p)[i] = n
  ELSE Null

\* Variant of the toggle that only ever closes (setIsOpen(false)).
ToggleCloseOnly(open, n) ==
  [i \in (DOMAIN open) \ Descendants(n) |->
     IF i = n THEN FALSE ELSE open[i]]

\* Variant of the toggle in which the click bubbles to the row of the
\* parent directory, which toggles as well.
ToggleBubble(open, n) ==
  LET own == IF open[n]
             THEN [i \in (DOMAIN open) \ Descendants(n) |->
                     IF i = n THEN FALSE ELSE open[i]]
             ELSE [i \in (DOMAIN open) \cup Descendants(n) |->
                     IF i = n \/ i \in Descendants(n) THEN TRUE ELSE open[i]]
  IN  IF Parent(n) = Null THEN own
      ELSE [i \in (DOMAIN own) \ Descendants(Parent(n)) |->
              IF i = Parent(n) THEN FALSE ELSE own[i]]

\* Variant of the toggle in which the flags live in one map that outlives
\* the instances: a closed directory keeps the flags below it.
ToggleKeep(open, n) == [open EXCEPT ![n] = ~open[n]]

\* setIsOpen(!isOpen) on instance n followed by the re-render: closing
\* unmounts the instances below n, opening mounts them afresh with
\* isOpen = true.
Toggle(open, n) ==
  IF open[n]
  THEN [i \in (DOMAIN open) \ Descendants(n) |->
          IF i = n THEN FALSE ELSE open[i]]
  ELSE [i \in (DOMAIN open) \cup Descendants(n) |->
          IF i = n \/ i \in Descendants(n) THEN TRUE ELSE open[i]]

\* Variant of the directory branch that falls through to onSelect(node).
ClickDirectorySelect(n) ==
  /\ isOpen' = Toggle(isOpen, n)
  /\ selectedFile' = n
  /\ UNCHANGED heap

\* FileTreeNode.handleClick, first branch (directory).
ClickDirectory(n) ==
  /\ isOpen' = Toggle(isOpen, n)
  /\ UNCHANGED <<selectedFile, heap>>

\* Variant of the file branch that hands a copy of the node to onSelect.
ClickFileCopy(n) ==
  LET copy == Cardinality(DOMAIN heap) + 1
  IN  /\ heap' = [i \in DOMAIN heap \cup {copy} |->
                    IF i = copy THEN heap[n] ELSE heap[i]]
      /\ selectedFile' = copy
      /\ UNCHANGED isOpen

\* Variant of the file branch in which the rows are keyed by the selection,
\* so that a new selection remounts every instance.
ClickFileRemount(n) ==
  /\ selectedFile' = n
  /\ isOpen' = [i \in DOMAIN heap |-> TRUE]
  /\ UNCHANGED heap

\* Variant of the file branch that deselects on a click on the selected
\* file.
ClickFileDeselect(n) ==
  /\ selectedFile' = IF selectedFile = n THEN Null ELSE n
  /\ UNCHANGED <<isOpen, heap>>

\* FileTreeNode.handleClick, second branch: onSelect(node), wired to
\* setSelectedFile.
ClickFile(n) ==
  /\ selectedFile' = n
  /\ UNCHANGED <<isOpen, heap>>

\* The record of discarded collapsed flags after a click on n.  Closing a
\* directory unmounts the instances below it, each with its flag; the
\* record is kept for the directories below the directory clicked last and
\* is empty after a click on a file row.
DiscardedAfter(n) ==
  IF heap[n].type = "directory" /\ isOpen[n]
  THEN LET gone == Descendants(n) \cap DOMAIN isOpen
       IN  ((discarded \cap Descendants(n)) \ gone)
             \cup {e \in gone : heap[e].type = "directory" /\ ~isOpen[e]}
  ELSE IF heap[n].type = "directory"
       THEN discarded \cap Descendants(n)
       ELSE {}

\* A click on the row of n: only a rendered row can be clicked, and events
\* are dispatched after the mount effect.
handleClick(n) ==
  /\ pc = "ready"
  /\ n \in Rendered
  /\ IF heap[n].type = "directory" THEN ClickDirectory(n) ELSE ClickFile(n)
  /\ prevEvent' = lastEvent
  /\ lastEvent' = [kind |-> "click", node |-> n]
  /\ lastFileClicked' = IF heap[n].type = "file" THEN n ELSE lastFileClicked
  /\ discarded' = DiscardedAfter(n)
  /\ UNCHANGED <<PROJECT_FILES, defaultFile, pc>>

Click == \E n \in Refs : handleClick(n)

Next == UseEffect \/ Click

Spec == Init /\ [][Next]_vars

\* ------------------------------------------- the resolver as a function
\* The resolver applied to an arbitrary node sequence (the roots of an
\* arbitrary forest).
InitResolver ==
  /\ InitForest
  /\ selectedFile = Null
  /\ defaultFile = Null
  /\ isOpen = [i \in DOMAIN heap |-> TRUE]
  /\ pc = "input"
  /\ lastEvent = NoEvent
  /\ prevEvent = NoEvent
  /\ lastFileClicked = Null
  /\ discarded = {}

ResolverCall ==
  /\ pc = "input"
  /\ defaultFile' = findDefaultFile(PROJECT_FILES)
  /\ pc' = "resolved"
  /\ UNCHANGED <<PROJECT_FILES, heap, selectedFile, isOpen, lastEvent,
                 prevEvent, lastFileClicked, discarded>>

NextResolver == ResolverCall

SpecResolver == InitResolver /\ [][NextResolver]_vars

\* ------------------------------------------------- auxiliary definitions
AllOpen == [i \in DOMAIN heap |-> TRUE]

\* Depth-first pre-order of a node sequence, children in stored order: the
\* order in which the fully expanded tree lists its rows.
PreOrder(nodes) == FileTree(nodes, AllOpen)

ForestNodes == Range(PreOrder(PROJECT_FILES))

Matches(seq) == {i \in DOMAIN seq : heap[seq[i]].name = DefaultFileName}

\* First element of seq whose name is the default file name, or Null.
FirstMatch(seq) ==
  IF Matches(seq) = {} THEN Null
  ELSE seq[CHOOSE i \in Matches(seq) : \A j \in Matches(seq) : i <= j]

IsFile(n) == heap[n].type = "file"
IsDirectory(n) == heap[n].type = "directory"

ClickEvent(n) == [kind |-> "click", node |-> n]
EffectEvent == [kind |-> "effect", node |-> Null]

\* The step is a click on the row of n.
ClickStep(n) ==
  /\ pc = "ready"
  /\ lastEvent' = ClickEvent(n)
  /\ prevEvent' = lastEvent

\* ---------------------------------------------------------------- claims

\* C1 (as stated): after a click on the row of file A followed by a click
\* on the row of a different file B, the store holds B and the only
\* highlighted row is B's row; A's row is not highlighted.
C1_ExclusiveHighlight ==
  (/\ prevEvent.kind = "click" /\ lastEvent.kind = "click"
   /\ prevEvent.node # lastEvent.node
   /\ IsFile(prevEvent.node) /\ IsFile(lastEvent.node))
  => /\ selectedFile = lastEvent.node
     /\ ~isSelected(prevEvent.node)
     /\ \A n \in Rendered : isSelected(n) => n = lastEvent.node

\* C2 (as stated): the default-selection pass at mount yields the first
\* node, in pre-order over the whole forest, whose name is the default file
\* name, and none only when the forest has no such node.
C2_MountSearchesWholeForest ==
  lastEvent = EffectEvent /\ pc = "ready"
  => defaultFile = FirstMatch(PreOrder(PROJECT_FILES))

\* C3 (as stated): when no node of the forest has the default file name
\* (the empty forest included), the default-selection pass leaves the store
\* at none, the viewer shows the placeholder and rendering goes on.
C3_NoMatchIsNoSelection ==
  lastEvent = EffectEvent /\ FirstMatch(PreOrder(PROJECT_FILES)) = Null
  => /\ pc = "ready"
     /\ selectedFile = Null
     /\ Viewer = Placeholder

\* C4 (as stated): the store holds none or a node of type file.
C4_SelectionIsFile ==
  selectedFile = Null \/ IsFile(selectedFile)

\* C5: the store holds none or a node of the forest.
C5_SelectionInForest ==
  selectedFile = Null \/ selectedFile \in ForestNodes

\* C5 witness: a file row was clicked after a directory row, and the store
\* holds that file node of the forest.
C5_Witness ==
  /\ prevEvent.kind = "click" /\ IsDirectory(prevEvent.node)
  /\ lastEvent.kind = "click" /\ IsFile(lastEvent.node)
  /\ selectedFile = lastEvent.node
  /\ selectedFile \in ForestNodes

\* C6: a click on a directory row leaves the store's value unchanged.
C6_ToggleKeepsSelection ==
  [][\A d \in Refs : ClickStep(d) /\ IsDirectory(d)
        => selectedFile' = selectedFile]_vars

\* C6 witness: a directory above the selected file was clicked and is now
\* collapsed, the file is still selected.
C6_Witness ==
  /\ lastEvent.kind = "click" /\ IsDirectory(lastEvent.node)
  /\ ~isOpen[lastEvent.node]
  /\ selectedFile # Null
  /\ selectedFile \in Descendants(lastEvent.node)

\* C7: a click on a file row leaves every directory's open flag, the set of
\* mounted instances and the rendered rows unchanged.
C7_SelectKeepsExpansion ==
  [][\A f \in Refs : ClickStep(f) /\ IsFile(f)
        => /\ DOMAIN isOpen' = DOMAIN isOpen
           /\ \A d \in DOMAIN isOpen : IsDirectory(d) => isOpen'[d] = isOpen[d]
           /\ Rows' = Rows]_vars

\* C7 witness: a file row was clicked while some directory was collapsed.
C7_Witness ==
  /\ lastEvent.kind = "click" /\ IsFile(lastEvent.node)
  /\ selectedFile = lastEvent.node
  /\ \E d \in DOMAIN isOpen : IsDirectory(d) /\ ~isOpen[d]

\* C8: the resolver returns the first node, in depth-first pre-order of its
\* argument, whose name is the default file name (none if there is none);
\* a match that comes later in that order is never returned.
C8_PreOrderPriority ==
  pc = "resolved" => defaultFile = FirstMatch(PreOrder(PROJECT_FILES))

\* C8 witness: the name occurs at a root and below a root, and the resolver
\* returned the one that comes first in pre-order.
C8_Witness ==
  /\ pc = "resolved"
  /\ \E a \in Range(PROJECT_FILES), b \in ForestNodes \ Range(PROJECT_FILES) :
       /\ heap[a].name = DefaultFileName
       /\ heap[b].name = DefaultFileName
       /\ defaultFile \in {a, b}
       /\ \E i, j \in DOMAIN PreOrder(PROJECT_FILES) :
            /\ PreOrder(PROJECT_FILES)[i] = defaultFile
            /\ PreOrder(PROJECT_FILES)[j] \in {a, b} \ {defaultFile}
            /\ i < j

\* C9: the store changes only in the mount effect, which runs as the very
\* first event and stores the resolver's result, or in a click on a file
\* row, which stores the clicked node; no click precedes the mount effect.
C9_OnlyTwoWriters ==
  [][/\ selectedFile' # selectedFile
          => \/ /\ lastEvent' = EffectEvent
                /\ lastEvent = NoEvent
                /\ selectedFile' = defaultFile'
             \/ /\ lastEvent'.kind = "click"
                /\ IsFile(lastEvent'.node)
                /\ selectedFile' = lastEvent'.node
     /\ lastEvent' = EffectEvent => lastEvent = NoEvent
     /\ lastEvent'.kind = "click" => lastEvent # NoEvent]_vars

\* C9 witness: the effect stored a default, then a click on another file
\* row replaced it.
C9_Witness ==
  /\ prevEvent = EffectEvent
  /\ lastEvent.kind = "click"
  /\ defaultFile # Null
  /\ selectedFile = lastEvent.node
  /\ selectedFile # defaultFile

\* C10: a click on the row of the node the store already holds leaves the
\* store and every open flag unchanged.
C10_IdempotentReselect ==
  [][\A f \in Refs : ClickStep(f) /\ IsFile(f) /\ selectedFile = f
        => selectedFile' = selectedFile /\ isOpen' = isOpen]_vars

\* C10 witness: the same file row was clicked twice in a row and is
\* selected.
C10_Witness ==
  /\ prevEvent.kind = "click" /\ lastEvent = prevEvent
  /\ IsFile(lastEvent.node)
  /\ selectedFile = lastEvent.node

\* C11: every instance starts expanded, a click on a directory's own row
\* flips its flag (so n clicks in a row leave it expanded for even n and
\* collapsed for odd n), and the flag of an instance that stays mounted
\* changes in no other step.
C11_ToggleMachine ==
  /\ \A d \in DOMAIN isOpen : isOpen[d]
  /\ [][/\ \A d \in Refs : ClickStep(d) /\ IsDirectory(d)
              => d \in DOMAIN isOpen' /\ isOpen'[d] = ~isOpen[d]
        /\ \A d \in DOMAIN isOpen \cap DOMAIN isOpen' :
              isOpen'[d] # isOpen[d] => ClickStep(d) /\ IsDirectory(d)]_vars

\* C11 witness: the same directory row was clicked twice in a row and the
\* directory is expanded again.
C11_Witness ==
  /\ prevEvent.kind = "click" /\ lastEvent = prevEvent
  /\ IsDirectory(lastEvent.node)
  /\ isOpen[lastEvent.node]

\* C12: a click on the row of directory d leaves mounted, with its flag
\* unchanged, every instance that is neither d nor below d.
C12_ToggleIsLocal ==
  [][\A d \in Refs : ClickStep(d) /\ IsDirectory(d)
        => \A e \in DOMAIN isOpen \ ({d} \cup Descendants(d)) :
              e \in DOMAIN isOpen' /\ isOpen'[e] = isOpen[e]]_vars

\* C12 witness: a directory was clicked while a collapsed directory that is
\* neither it nor below it is mounted, and that one is still collapsed.
C12_Witness ==
  /\ lastEvent.kind = "click" /\ IsDirectory(lastEvent.node)
  /\ \E e \in DOMAIN isOpen \ ({lastEvent.node} \cup Descendants(lastEvent.node)) :
       IsDirectory(e) /\ ~isOpen[e]

\* C13: a click that re-expands a collapsed directory d leaves every
\* directory below d mounted and expanded, whatever flag it had when d was
\* collapsed.
C13_ReexpandResets ==
  [][\A d \in Refs : ClickStep(d) /\ IsDirectory(d) /\ ~isOpen[d]
        => \A e \in Descendants(d) :
              IsDirectory(e) => e \in DOMAIN isOpen' /\ isOpen'[e]]_vars

\* C13 witness: d has just been re-expanded, and a directory below d that
\* was collapsed when d was collapsed is expanded.
C13_Witness ==
  /\ lastEvent.kind = "click" /\ IsDirectory(lastEvent.node)
  /\ isOpen[lastEvent.node]
  /\ \E e \in discarded \cap Descendants(lastEvent.node) : isOpen[e]

\* The rows rendered with the selected style.
Highlighted == {n \in Rendered : isSelected(n)}

SameName(a, b) == heap[a].name = heap[b].name
SameContent(a, b) == heap[a].content = heap[b].content

\* C14: a rendered file row is highlighted exactly when the store is not
\* none and the row's node has the name and the content of the selected
\* node.
C14_HighlightRule ==
  \A n \in Rendered :
    IsFile(n) => (n \in Highlighted
                    <=> /\ selectedFile # Null
                        /\ SameName(selectedFile, n)
                        /\ SameContent(selectedFile, n))

\* C14 witness: a file row other than the selected node's is highlighted
\* (same name and content), and a file row with the selected name and a
\* different content is not.
C14_Witness ==
  /\ selectedFile # Null
  /\ \E b, c \in Rendered :
       /\ IsFile(b) /\ b # selectedFile /\ b \in Highlighted
       /\ IsFile(c) /\ SameName(selectedFile, c)
       /\ ~SameContent(selectedFile, c) /\ c \notin Highlighted

\* C15: right after the mount effect every node of the forest is mounted,
\* expanded and has a rendered row, and the store holds what the resolver
\* returned to the effect.
C15_InitialState ==
  lastEvent = EffectEvent
  => /\ \A n \in ForestNodes :
          n \in Rendered /\ n \in DOMAIN isOpen /\ isOpen[n]
     /\ selectedFile = defaultFile

\* C15 witness: a root directory holding the files protocol.md and a.go has
\* just been mounted, and the protocol.md node is selected.
C15_Witness ==
  /\ lastEvent = EffectEvent
  /\ Len(PROJECT_FILES) = 1
  /\ IsDirectory(PROJECT_FILES[1])
  /\ Len(Children(PROJECT_FILES[1])) = 2
  /\ LET p == Children(PROJECT_FILES[1])[1]
         a == Children(PROJECT_FILES[1])[2]
     IN  /\ IsFile(p) /\ heap[p].name = "protocol.md" /\ heap[p].content = "X"
         /\ IsFile(a) /\ heap[a].name = "a.go" /\ heap[a].content = "Y"
         /\ selectedFile = p
         /\ Rows = <<PROJECT_FILES[1], p, a>>

\* The directories above n.
Ancestors(n) == {a \in Refs : n \in Descendants(a)}

\* Every directory above n is mounted and expanded.
AncestorsExpanded(n) ==
  \A a \in Ancestors(n) : a \in DOMAIN isOpen /\ isOpen[a]

\* C17: the rendered rows are the nodes all of whose ancestors are
\* expanded, in depth-first pre-order of the forest; the mounted instances
\* are the rendered rows.
C17_VisibleRows ==
  /\ Rows = SelectSeq(PreOrder(PROJECT_FILES), AncestorsExpanded)
  /\ DOMAIN isOpen = Rendered

\* C17 witness: a collapsed directory with children shows its own row and
\* none of theirs, and an expanded directory without children shows its row.
C17_Witness ==
  \E d, e \in Rendered :
    /\ IsDirectory(d) /\ ~isOpen[d] /\ Children(d) # << >>
    /\ Descendants(d) \cap Rendered = {}
    /\ IsDirectory(e) /\ isOpen[e] /\ Children(e) = << >>

\* C18: once the mount effect has run, the store holds the node of the file
\* row clicked last, or the resolver's result if no file row was clicked.
C18_LastFileClickWins ==
  pc = "ready"
  => selectedFile = IF lastFileClicked # Null THEN lastFileClicked
                    ELSE defaultFile

\* C18 witness: a file row was clicked, then two directory rows; the store
\* still holds that file, which is not the default.
C18_Witness ==
  /\ prevEvent.kind = "click" /\ IsDirectory(prevEvent.node)
  /\ lastEvent.kind = "click" /\ IsDirectory(lastEvent.node)
  /\ lastFileClicked # Null
  /\ lastFileClicked # defaultFile
  /\ selectedFile = lastFileClicked

\* No two file nodes share name and content, every file has content and no
\* directory has.
DistinctFiles ==
  /\ \A a, b \in ForestNodes :
       IsFile(a) /\ IsFile(b) /\ a # b
         => ~(SameName(a, b) /\ SameContent(a, b))
  /\ \A n \in ForestNodes : IsFile(n) <=> heap[n].content # Undefined

\* C19 (as stated): if the files of the forest are distinct by name and
\* content, at most one row is highlighted, and a highlighted row is the
\* row of the node in the store.
C19_UniqueHighlight ==
  DistinctFiles
  => /\ Cardinality(Highlighted) <= 1
     /\ \A n \in Highlighted : n = selectedFile

\* C20 (as stated): every highlighted row is the row of a file node.
C20_NoDirectoryHighlighted ==
  \A n \in Highlighted : IsFile(n)

\* C21: once the store holds a node it holds a node after every step.
C21_NoWayBackToNone ==
  [][selectedFile # Null => selectedFile' # Null]_vars

\* C21 witness: the directory holding the selected file has been collapsed;
\* the file has no row, is still in the store and is shown by the viewer.
C21_Witness ==
  /\ pc = "ready"
  /\ selectedFile # Null
  /\ lastFileClicked = selectedFile
  /\ selectedFile \notin Rendered
  /\ Viewer.kind = "file"

\* C22: a click on a file row happens only in a state in which the file
\* has a rendered row, that is, every directory above it is expanded.
C22_ClickNeedsVisibleRow ==
  [][\A f \in Refs : ClickStep(f) /\ IsFile(f)
        => f \in Rendered /\ AncestorsExpanded(f)]_vars

\* C22 witness: a file was selected by a click right after the click that
\* re-expanded a directory above it.
C22_Witness ==
  /\ prevEvent.kind = "click" /\ IsDirectory(prevEvent.node)
  /\ lastEvent.kind = "click" /\ IsFile(lastEvent.node)
  /\ prevEvent.node \in Ancestors(lastEvent.node)
  /\ selectedFile = lastEvent.node
  /\ AncestorsExpanded(lastEvent.node)

\* C23 (as stated): in every reachable state the viewer shows the
\* placeholder exactly when the store is none and otherwise the name and
\* content of the stored node, and the highlighted rows are those matching
\* what the viewer shows.
C23_ViewerFollowsStore ==
  /\ Viewer = Placeholder <=> selectedFile = Null
  /\ selectedFile # Null
       => /\ Viewer.kind = "file"
          /\ Viewer.name = heap[selectedFile].name
          /\ Viewer.content = heap[selectedFile].content
  /\ \A n \in Rendered :
       n \in Highlighted
         <=> /\ Viewer.kind = "file"
             /\ Viewer.name = heap[n].name
             /\ Viewer.content = heap[n].content

====
